---- MODULE Spec2Model ----
(***************************************************************************)
(* fetch-repos-bot: the file-system work queue (todo / processing / done / *)
(* failed) with its enqueuer and its workers, the static sharder, the     *)
(* pipeline launcher, the consumer and reporter tasks and the shard        *)
(* analysis.                                                               *)
(*   scripts/split_workitems_to_queue.py   enqueue                         *)
(*   scripts/run_consumer_worker.py        atomic_claim, worker loop       *)
(*   scripts/generate_shards_and_matrix.py sharder                         *)
(*   tasks.py                              assistant_org, consumer,        *)
(*                                         reporter                        *)
(*   performance_analysis.py               analyze_work_items              *)
(***************************************************************************)
EXTENDS Integers, Sequences, FiniteSets, TLC

\* ---------------------------------------------------------------- bounds
\* File names wi-<uuid>.json the enqueuer can draw; their order as numbers
\* is their lexicographic order as file names.
MaxEntries == 2
\* Worker processes racing on the queue.
NumWorkers == 2
\* Largest MAX_ITEMS_PER_WORKER a worker is started with (0 = unlimited).
MaxCap == 1
\* Largest work-item list one enqueue run splits.
MaxBatch == 2
\* Longest work-item list handed to the sharder.
MaxItems == 7
\* Largest max_workers argument handed to the sharder.
MaxWorkersArg == 5
\* Magnitude of the most negative max_workers argument handed to the sharder.
MaxNegWorkersArg == 1
\* Largest exit code of a stage run.
MaxExitCode == 2
\* Most calls of the stage runner for one stage that are followed.
MaxInvocations == 2
\* Longest list of input work items handed to the consumer.
MaxInputs == 2
\* Longest list of item outcomes that is recorded in two orders.
MaxOutcomes == 2
\* Most runs of the sharder in one output directory.
MaxRuns == 2

Names == 1..MaxEntries
Workers == 1..NumWorkers
Dirs == {"todo", "processing", "done", "failed"}

VARIABLES
  queue,          \* directory -> set of file names present in it
  created,        \* file names the enqueuer has drawn so far
  enq,            \* the enqueuer: items left to write, file it holds open
  pc,             \* worker -> position in main()
  max_items,      \* worker -> MAX_ITEMS_PER_WORKER
  max_seconds,    \* worker -> MAX_DURATION_SEC
  processed,      \* worker -> processed
  seq,            \* worker -> seq
  cands,          \* worker -> candidates of atomic_claim still to try
  claim,          \* worker -> claimed file name (0: none)
  ok,             \* worker -> ok
  run,            \* worker -> how the stage run of its claimed file ended
  claimCount,     \* history: file name -> successful claims of it
  handedCount,    \* history: file name -> times handed to run_consumer_for_file
  claimsMade,     \* history: worker -> successful claims of its running process
  shard_ids,      \* the (worker_id, seq) pairs that named a stage run so far
  move_log,       \* file names whose failed final move a worker printed
  work_items,     \* sharder: the list read from the producer output
  max_workers,    \* sharder: int(max_workers)
  sharderPc,      \* sharder: position in main()
  num_workers,    \* sharder: num_workers
  per_shard,      \* sharder: per_shard
  shard_i,        \* sharder: loop variable i
  matrix_include, \* sharder: matrix_include
  shards,         \* output/shards: shard index -> items of the shard file
  matrix,         \* output/matrix-output.json: written?, its include list
  empty_payload,  \* work items (by place) whose payload is empty or missing
  sharder_runs,   \* sharder: runs started in this output directory
  analysisPc,     \* analyze_work_items: position
  shard_sizes,    \* analyze_work_items: the shard distribution it printed
  pipePc,         \* launcher: position in run_pipeline
  form_error,     \* launcher: error_message shown by reset_form
  org_name,       \* launcher: org_name
  max_workers_int,  \* launcher: max_workers_int
  stage_index,    \* launcher: index of the for loop over stage_order
  stage_status,   \* launcher: stage_status
  stage_messages, \* launcher: stage_messages
  running_stage,  \* launcher: the stage the dialog shows as running
  runner_outcome, \* launcher: how subprocess.run ended for the running stage
  invoked,        \* history: stage -> calls of run_rcc_task in this run
  inputs,         \* consumer: workitems.inputs
  item_i,         \* consumer: index of the for loop over the inputs
  consumerPc,     \* consumer: position in consumer()
  repo_exists,    \* consumer: repository names present under repos_dir
  processed_repos,  \* consumer: processed_repos
  outputs,        \* consumer: work items created with workitems.outputs
  item_state,     \* consumer: input index -> how the item was released
  clone_calls,    \* history: input index -> calls of Repo.clone_from
  clone_result,   \* history: input index -> how Repo.clone_from ended
  report,         \* consumer: report-shard-<id>.json
  recorded,       \* the same outcomes as the consumer records them, twice
  out_org,        \* consumer: org_name it puts into its outputs
  env_org,        \* reporter: what get_org_name() returns
  rep_run,        \* which of the two orders is being reported
  reporterPc,     \* reporter: position in reporter()
  rep_i,          \* reporter: index of the for loop over the inputs
  summary_stats,  \* reporter: summary_stats
  rep_item_state, \* reporter: input index -> how the item was released
  shard_report,   \* order -> the consumer's report-shard-<id>.json
  final_report    \* order -> the reporter's final_report_<time>.json

queueVars == <<queue, created, enq>>
workerVars == <<pc, max_items, max_seconds, processed, seq, cands, claim, ok,
                run>>
historyVars == <<claimCount, handedCount, claimsMade, shard_ids,
                 move_log>>
analysisVars == <<analysisPc, shard_sizes>>
sharderVars == <<work_items, max_workers, sharderPc, num_workers, per_shard,
                 shard_i, matrix_include, shards, matrix, empty_payload,
                 sharder_runs, analysisVars>>
pipelineVars == <<pipePc, form_error, org_name, max_workers_int, stage_index,
                  stage_status, stage_messages, running_stage, runner_outcome,
                  invoked>>
consumerVars == <<inputs, item_i, consumerPc, repo_exists, processed_repos,
                  outputs, item_state, clone_calls, clone_result,
                  report>>
reporterVars == <<recorded, out_org, env_org, rep_run, reporterPc, rep_i,
                  summary_stats, rep_item_state, shard_report, final_report>>
stageVars == <<pipelineVars, consumerVars, reporterVars>>
vars == <<queueVars, workerVars, historyVars, sharderVars, stageVars>>

todo == queue["todo"]
processing == queue["processing"]
done == queue["done"]
failed == queue["failed"]

\* ------------------------------------------------------------ the queue

SetMin(S) == CHOOSE x \in S : \A y \in S : x <= y

\* sorted(todo_dir.glob("*.json"))
RECURSIVE SortedNames(_)
SortedNames(S) ==
  IF S = {} THEN <<>> ELSE <<SetMin(S)>> \o SortedNames(S \ {SetMin(S)})

\* How Path.rename(target) can end for file n of directory src. It raises
\* FileNotFoundError when the source is gone; faults: whether it can also
\* raise another OSError.
RenameResultsNoCheck(src, n, faults) ==
  IF faults THEN {"ok", "OSError"} ELSE {"ok"}

RenameResults(src, n, faults) ==
  IF n \notin src THEN {"FileNotFoundError"}
  ELSE IF faults THEN {"ok", "OSError"} ELSE {"ok"}

\* The source directory after a rename that succeeded.
MoveOutCopy(S, n) == S

MoveOut(S, n) == S \ {n}

\* The target directory after a rename that succeeded.
MoveIn(S, n) == S \cup {n}

Rename(q, src, dst, n) ==
  [q EXCEPT ![src] = MoveOut(@, n), ![dst] = MoveIn(@, n)]

\* uuid.uuid4().hex: a name no file of the queue carries
FreshNamesCollide == Names

FreshNames == Names \ created

\* -- split_workitems_to_queue.py

\* main() reads a list of k items and starts the loop over it.
EnqueueStart(k) ==
  /\ enq.left = 0
  /\ enq.open = 0
  /\ k <= Cardinality(FreshNames)
  /\ enq' = [left |-> k, open |-> 0]
  /\ UNCHANGED <<queue, created, workerVars, historyVars, sharderVars,
                 stageVars>>

\* dest.open("w"): the file exists in todo, still empty.
EnqueueCreate(n) ==
  /\ enq.left > 0
  /\ enq.open = 0
  /\ n \in FreshNames
  /\ queue' = [queue EXCEPT !["todo"] = @ \cup {n}]
  /\ created' = created \cup {n}
  /\ enq' = [enq EXCEPT !.open = n]
  /\ UNCHANGED <<workerVars, historyVars, sharderVars, stageVars>>

\* json.dump(work, f) and the close of the file: the single-item list is in
\* the file, wherever the file is by now.
EnqueueWrite ==
  /\ enq.open # 0
  /\ enq' = [left |-> enq.left - 1, open |-> 0]
  /\ UNCHANGED <<queue, created, workerVars, historyVars, sharderVars,
                 stageVars>>

\* What a reader finds in file n: nothing until the enqueuer has written it.
Content(n) ==
  IF n \notin created THEN "absent" ELSE IF enq.open = n THEN "empty" ELSE "item"

\* -- run_consumer_worker.py

NoRun == [result |-> "none", outcome |-> "none"]

\* The locals of main() that describe the item in hand, with no item in hand.
NoItem(w) ==
  /\ cands' = [cands EXCEPT ![w] = <<>>]
  /\ claim' = [claim EXCEPT ![w] = 0]
  /\ ok' = [ok EXCEPT ![w] = FALSE]
  /\ run' = [run EXCEPT ![w] = NoRun]

\* The process of worker w ends: its locals are gone.
Exit(w) ==
  /\ pc' = [pc EXCEPT ![w] = "exited"]
  /\ max_items' = [max_items EXCEPT ![w] = 0]
  /\ max_seconds' = [max_seconds EXCEPT ![w] = 0]
  /\ processed' = [processed EXCEPT ![w] = 0]
  /\ seq' = [seq EXCEPT ![w] = 0]
  /\ claimsMade' = [claimsMade EXCEPT ![w] = 0]
  /\ NoItem(w)

\* The environment of main(): MAX_ITEMS_PER_WORKER and MAX_DURATION_SEC.
StartWorker(w, mi, ms) ==
  /\ pc[w] \in {"idle", "exited"}
  /\ pc' = [pc EXCEPT ![w] = "loop"]
  /\ max_items' = [max_items EXCEPT ![w] = mi]
  /\ max_seconds' = [max_seconds EXCEPT ![w] = ms]
  /\ processed' = [processed EXCEPT ![w] = 0]
  /\ seq' = [seq EXCEPT ![w] = 0]
  /\ claimsMade' = [claimsMade EXCEPT ![w] = 0]
  /\ NoItem(w)
  /\ UNCHANGED <<queueVars, claimCount, handedCount, shard_ids, move_log,
                 sharderVars, stageVars>>

\* if max_seconds and time.time() - start > max_seconds
TimeBudgetReached(w, elapsedOver) == max_seconds[w] # 0 /\ elapsedOver

\* if max_items and processed >= max_items
ItemCapReached(w) == max_items[w] # 0 /\ processed[w] >= max_items[w]

\* Where main() evaluates its two budgets: at the top of the while loop,
\* between two items.
BudgetsCheckedMidItem(p) == p \in {"loop", "process"}

BudgetsCheckedAt(p) == p = "loop"

\* Top of the while loop: the two budget checks, then atomic_claim lists todo.
LoopTop(w) ==
  /\ BudgetsCheckedAt(pc[w])
  /\ \E elapsedOver \in BOOLEAN :
       IF TimeBudgetReached(w, elapsedOver) \/ ItemCapReached(w)
       THEN Exit(w)
       ELSE /\ pc' = [pc EXCEPT ![w] = "claim"]
            /\ cands' = [cands EXCEPT ![w] = SortedNames(todo)]
            /\ UNCHANGED <<max_items, max_seconds, processed, seq, claim,
                           ok, run, claimsMade>>
  /\ UNCHANGED <<queueVars, claimCount, handedCount, shard_ids, move_log,
                 sharderVars, stageVars>>

\* Which candidates atomic_claim goes on to after a rename that failed
\* (except ...: continue).
AfterLostRace(c) == Tail(c)

\* One turn of the for loop of atomic_claim: no candidate left returns None
\* and main() breaks; else one rename is tried.
ClaimStep(w, faults) ==
  /\ pc[w] = "claim"
  /\ IF cands[w] = <<>>
     THEN /\ Exit(w)
          /\ UNCHANGED <<queue, claimCount>>
     ELSE LET p == Head(cands[w]) IN
          \E r \in RenameResults(todo, p, faults) :
            IF r = "ok"
            THEN /\ queue' = Rename(queue, "todo", "processing", p)
                 /\ claim' = [claim EXCEPT ![w] = p]
                 /\ claimCount' = [claimCount EXCEPT ![p] = @ + 1]
                 /\ claimsMade' = [claimsMade EXCEPT ![w] = @ + 1]
                 /\ cands' = [cands EXCEPT ![w] = <<>>]
                 /\ pc' = [pc EXCEPT ![w] = "process"]
                 /\ UNCHANGED <<max_items, max_seconds, processed, seq, ok,
                                run>>
            ELSE /\ cands' = [cands EXCEPT ![w] = AfterLostRace(@)]
                 /\ UNCHANGED <<queue, claim, claimCount, claimsMade, pc,
                                max_items, max_seconds, processed, seq, ok,
                                run>>
  /\ UNCHANGED <<created, enq, handedCount, shard_ids, move_log,
                 sharderVars, stageVars>>

\* What one call of run_consumer_for_file can do: it raises before the stage
\* ran (mkdir, the env file, a missing rcc), or the stage ran, classified the
\* item of the file (tasks.py consumer), and rcc ended with some exit code.
ItemOutcomes == {"success", "already_exists", "released", "failed", "invalid"}
StageRuns ==
  {[result |-> "raised", outcome |-> "not_run"]}
    \cup [result : {"exit0", "exitNonzero"}, outcome : ItemOutcomes]

\* ok = False; try: ok = run_consumer_for_file(...) (res.returncode == 0)
\* except Exception: ok = False
OkOfNoReset(result) == result # "exitNonzero"

OkOf(result) == result = "exit0"

\* shard_id = f"{worker_id}-{seq}": it names the output work-item file, the
\* env file and, through SHARD_ID, the report file of the stage run.
ShardIdOf(w, n) == <<w, n>>

Process(w) ==
  /\ pc[w] = "process"
  /\ \E r \in StageRuns :
       /\ run' = [run EXCEPT ![w] = r]
       /\ ok' = [ok EXCEPT ![w] = OkOf(r.result)]
  /\ handedCount' = [handedCount EXCEPT ![claim[w]] = @ + 1]
  /\ shard_ids' = shard_ids \cup {ShardIdOf(w, seq[w])}
  /\ pc' = [pc EXCEPT ![w] = "complete"]
  /\ UNCHANGED <<queueVars, max_items, max_seconds, processed, seq, cands,
                 claim, claimCount, claimsMade, move_log, sharderVars,
                 stageVars>>

\* target = done / claim.name if ok else failed / claim.name
TerminalDirRequeue(isOk) == IF isOk THEN "done" ELSE "todo"

TerminalDir(isOk) == IF isOk THEN "done" ELSE "failed"

\* Where main() goes after processed += 1; seq += 1: the while loop again.
AfterItemBreak == "exited"

AfterItem == "loop"

\* processed += 1, whether the item succeeded or not
ProcessedAfterOkOnly(p, isOk) == IF isOk THEN p + 1 ELSE p

ProcessedAfter(p, isOk) == p + 1

\* Move to terminal state, best effort (except OSError: pass: nothing is
\* printed about a move that failed), then the two counters. claim and ok are dead from here on: the loop assigns them again
\* before it reads them.
Complete(w, faults) ==
  /\ pc[w] = "complete"
  /\ \E r \in RenameResults(processing, claim[w], faults) :
       queue' = IF r = "ok"
                THEN Rename(queue, "processing", TerminalDir(ok[w]), claim[w])
                ELSE queue
  /\ processed' = [processed EXCEPT ![w] = ProcessedAfter(@, ok[w])]
  /\ seq' = [seq EXCEPT ![w] = @ + 1]
  /\ pc' = [pc EXCEPT ![w] = AfterItem]
  /\ NoItem(w)
  /\ UNCHANGED move_log
  /\ UNCHANGED <<created, enq, max_items, max_seconds, claimCount,
                 handedCount, claimsMade, shard_ids, sharderVars, stageVars>>

\* The process of worker w is stopped wherever it is in the loop (killed, or
\* the machine goes down): nothing is moved, its locals are gone.
Kill(w) ==
  /\ pc[w] \in {"loop", "claim", "process", "complete"}
  /\ Exit(w)
  /\ UNCHANGED <<queueVars, claimCount, handedCount, shard_ids, move_log,
                 sharderVars, stageVars>>

\* ---------------------------------------------------------- the sharder
\* -- generate_shards_and_matrix.py

Min(a, b) == IF a <= b THEN a ELSE b

\* math.ceil(a / b) for a >= 0 and b # 0
CeilDiv(a, b) == IF b > 0 THEN (a + b - 1) \div b ELSE 0 - (a \div (0 - b))

FloorDiv(a, b) == IF b > 0 THEN a \div b ELSE 0 - ((a + (0 - b) - 1) \div (0 - b))

\* if total == 0
EmptyInputNever(total) == FALSE

EmptyInput(total) == total = 0

\* num_workers = min(max_workers, total)
NumWorkersOf(mw, total) == Min(mw, total)

\* per_shard = math.ceil(total / num_workers)
PerShardFloor(total, nw) == FloorDiv(total, nw)

PerShardOf(total, nw) == CeilDiv(total, nw)

\* start_idx = i * per_shard
StartIdx(i, ps) == i * ps

\* end_idx = min(start_idx + per_shard, total)
EndIdx(start, ps, total) == Min(start + ps, total)

\* work_items[start_idx:end_idx], for 0 <= start_idx <= end_idx <= len
SliceEndInclusive(items, start, end) ==
  SubSeq(items, start + 1, Min(end + 1, Len(items)))

Slice(items, start, end) == SubSeq(items, start + 1, end)

\* main(max_workers) up to the loop: the input is read; an empty list writes
\* the empty matrix and returns; num_workers = 0 raises ZeroDivisionError.
ShardStart ==
  /\ sharderPc = "start"
  /\ LET total == Len(work_items)
         nw == NumWorkersOf(max_workers, total)
     IN IF EmptyInput(total)
        THEN /\ matrix' = [written |-> TRUE, include |-> <<>>]
             /\ sharderPc' = "done"
             /\ UNCHANGED <<num_workers, per_shard>>
        ELSE IF nw = 0
        THEN /\ sharderPc' = "error"
             /\ num_workers' = nw
             /\ UNCHANGED <<matrix, per_shard>>
        ELSE /\ num_workers' = nw
             /\ per_shard' = PerShardOf(total, nw)
             /\ sharderPc' = "loop"
             /\ UNCHANGED matrix
  /\ UNCHANGED <<work_items, max_workers, shard_i, matrix_include, shards,
                 empty_payload, sharder_runs, analysisVars, queueVars, workerVars, historyVars,
                 stageVars>>

\* matrix_include.append({'shard_id': i}): the entry of shard i
MatrixEntryFromOne(i) == i + 1

MatrixEntry(i) == i

\* One turn of for i in range(num_workers), or its end.
ShardLoop ==
  /\ sharderPc = "loop"
  /\ LET total == Len(work_items)
         start_idx == StartIdx(shard_i, per_shard)
         end_idx == EndIdx(start_idx, per_shard, total)
         shard_items == Slice(work_items, start_idx, end_idx)
     IN IF shard_i >= num_workers \/ start_idx >= total
        THEN /\ sharderPc' = "matrix"
             /\ UNCHANGED <<shard_i, shards, matrix_include>>
        ELSE IF shard_items = <<>>
        THEN /\ shard_i' = shard_i + 1
             /\ UNCHANGED <<sharderPc, shards, matrix_include>>
        ELSE /\ shards' = (shard_i :> shard_items) @@ shards
             /\ matrix_include' = Append(matrix_include, MatrixEntry(shard_i))
             /\ shard_i' = shard_i + 1
             /\ UNCHANGED sharderPc
  /\ UNCHANGED <<work_items, max_workers, num_workers, per_shard, matrix,
                 empty_payload, sharder_runs, analysisVars, queueVars, workerVars, historyVars,
                 stageVars>>

\* Save matrix config.
ShardWriteMatrix ==
  /\ sharderPc = "matrix"
  /\ matrix' = [written |-> TRUE, include |-> matrix_include]
  /\ sharderPc' = "done"
  /\ UNCHANGED <<work_items, max_workers, num_workers, per_shard, shard_i,
                 matrix_include, shards, empty_payload, sharder_runs,
                 analysisVars, queueVars, workerVars, historyVars,
                 stageVars>>

\* main() is run again in the same output directory: the shard files and
\* the matrix descriptor of the earlier runs are still there.
ShardAgain(items, mw) ==
  /\ sharderPc \in {"done", "error"}
  /\ sharder_runs < MaxRuns
  /\ sharder_runs' = sharder_runs + 1
  /\ work_items' = items
  /\ max_workers' = mw
  /\ sharderPc' = "start"
  /\ num_workers' = 0
  /\ per_shard' = 0
  /\ shard_i' = 0
  /\ matrix_include' = <<>>
  /\ UNCHANGED <<shards, matrix, empty_payload, analysisVars, queueVars,
                 workerVars, historyVars, stageVars>>

\* -- performance_analysis.py

\* valid_items = [item for item in work_items if item.get('payload')]
ValidItems(items, empty) == SelectSeq(items, LAMBDA x : x \notin empty)

\* actual_workers = min(max_workers, total_repos)
ActualWorkers(mw, total) == Min(mw, total)

\* items_per_shard = (total_repos + actual_workers - 1) // actual_workers
ItemsPerShard(total, aw) == FloorDiv(total + aw - 1, aw)

\* shard_size = end_idx - start_idx, for i in range(actual_workers)
ShardSizeOf(i, ips, total) == Min(i * ips + ips, total) - i * ips

\* analyze_work_items(work_items_file, max_workers): no valid item returns
\* early; actual_workers = 0 raises ZeroDivisionError; else the shard
\* distribution is printed, one line for each i in range(actual_workers).
AnalyzeWorkItems ==
  /\ analysisPc = "start"
  /\ LET total_repos == Len(ValidItems(work_items, empty_payload))
         actual_workers == ActualWorkers(max_workers, total_repos)
         items_per_shard == ItemsPerShard(total_repos, actual_workers)
     IN IF total_repos = 0
        THEN /\ analysisPc' = "no_items"
             /\ UNCHANGED shard_sizes
        ELSE IF actual_workers = 0
        THEN /\ analysisPc' = "error"
             /\ UNCHANGED shard_sizes
        ELSE /\ analysisPc' = "done"
             /\ shard_sizes' =
                  [j \in 1..actual_workers |->
                     ShardSizeOf(j - 1, items_per_shard, total_repos)]
  /\ UNCHANGED <<work_items, max_workers, sharderPc, num_workers, per_shard,
                 shard_i, matrix_include, shards, matrix, empty_payload,
                 sharder_runs, queueVars, workerVars, historyVars,
                 stageVars>>

\* The work-item lists handed to the sharder: the items are told apart by
\* their place in the list.
ItemLists == {[k \in 1..n |-> k] : n \in 0..MaxItems}
WorkerArgs == (0 - MaxNegWorkersArg)..MaxWorkersArg

\* --------------------------------------------------- the pipeline launcher
stage_order == <<"Producer", "Consumer", "Reporter", "Dashboard">>

Stages == {stage_order[k] : k \in 1..Len(stage_order)}

\* The prerequisites of each stage, as the list the code keeps for it.
stage_dependencies ==
  [s \in Stages |->
     CASE s = "Producer" -> <<>>
       [] s = "Consumer" -> <<"Producer">>
       [] s = "Reporter" -> <<"Consumer">>
       [] s = "Dashboard" -> <<"Reporter">>]

\* A status is None (pending), True, False or "skipped"; all four are kept
\* as strings.
StatusOf(success) == IF success THEN "True" ELSE "False"

\* A stage message: its text, the exit code an "Exit code N" text carries,
\* and the stages a skip message names, in the order it names them.
Message(text, code, missing) ==
  [text |-> text, code |-> code, missing |-> missing]

NoMessage == Message("", 0, <<>>)

\* any(stage_status.get(dep) is not True for dep in dependencies)
AnyUnmetFailedOnly(status, deps) ==
  \E k \in 1..Len(deps) : status[deps[k]] = "False"

AnyUnmet(status, deps) ==
  \E k \in 1..Len(deps) : status[deps[k]] # "True"

RECURSIVE NotTrueOf(_, _)
\* The dependencies whose status is not True, in the order of the list.
NotTrueOf(status, deps) ==
  IF deps = <<>> THEN <<>>
  ELSE (IF status[Head(deps)] # "True" THEN <<Head(deps)>> ELSE <<>>)
         \o NotTrueOf(status, Tail(deps))

\* f"Skipped because {missing} did not succeed."
SkipMessageBare(missing) ==
  Message("Skipped because did not succeed.", 0, <<>>)

SkipMessage(missing) ==
  Message("Skipped because did not succeed.", 0, missing)

\* The ways subprocess.run can end: an exit code, or an exception.
NoOutcome == [kind |-> "none", code |-> 0]

RunnerOutcomes ==
  {[kind |-> "exit", code |-> c] : c \in 0..MaxExitCode}
    \cup {[kind |-> "FileNotFoundError", code |-> 0],
          [kind |-> "Exception", code |-> 0]}

\* The message of run_rcc_task when the rcc executable is not there.
RccNotFound ==
  "rcc command not found. Install RCC CLI and ensure it is on PATH."

\* run_rcc_task without its handler of FileNotFoundError
RunRccTaskNoHandler(o) ==
  [raised |-> o.kind = "FileNotFoundError",
   success |-> o.kind = "exit" /\ o.code = 0,
   message |->
     IF o.kind = "exit"
     THEN (IF o.code = 0 THEN Message("Success", 0, <<>>)
           ELSE Message("Exit code", o.code, <<>>))
     ELSE Message("str(exc)", 0, <<>>)]

\* run_rcc_task: the pair it returns; it raises nothing.
RunRccTask(o) ==
  [raised |-> FALSE,
   success |-> o.kind = "exit" /\ o.code = 0,
   message |->
     IF o.kind = "exit"
     THEN (IF o.code = 0 THEN Message("Success", 0, <<>>)
           ELSE Message("Exit code", o.code, <<>>))
     ELSE IF o.kind = "FileNotFoundError"
     THEN Message(RccNotFound, 0, <<>>)
     ELSE Message("str(exc)", 0, <<>>)]

\* The texts of the Max Workers field that are tried, and int() of each:
\* the number, or a ValueError.
MaxWorkersTexts == {"", "0", "1", "2", "-1", "two"}

IntOf(text) ==
  CASE text = "0" -> [ok |-> TRUE, value |-> 0]
    [] text = "1" -> [ok |-> TRUE, value |-> 1]
    [] text = "2" -> [ok |-> TRUE, value |-> 2]
    [] text = "-1" -> [ok |-> TRUE, value |-> 0 - 1]
    [] OTHER -> [ok |-> FALSE, value |-> 0]

OrgTexts == {"", "acme"}

Max(a, b) == IF a >= b THEN a ELSE b

\* The locals of run_pipeline before a run and after it has returned.
PipelineIdle ==
  /\ org_name = ""
  /\ max_workers_int = 1
  /\ stage_index = 0
  /\ stage_status = [s \in Stages |-> "None"]
  /\ stage_messages = [s \in Stages |-> NoMessage]
  /\ running_stage = "None"
  /\ runner_outcome = NoOutcome
  /\ invoked = [s \in Stages |-> 0]

\* The launcher at rest, for the specifications of the other components.
PipelineOff ==
  /\ pipePc = "off"
  /\ form_error = ""
  /\ PipelineIdle

\* run_pipeline up to its for loop: the two checks of the form, then the
\* fresh stage_status and stage_messages.
RunPipeline(org, text) ==
  /\ pipePc = "form"
  /\ LET raw == IF text = "" THEN "1" ELSE text
         parsed == IntOf(raw)
     IN IF org = ""
        THEN /\ form_error' = "Organization name is required."
             /\ UNCHANGED <<pipePc, org_name, max_workers_int>>
        ELSE IF ~parsed.ok
        THEN /\ form_error' = "Max Workers must be a positive integer."
             /\ UNCHANGED <<pipePc, org_name, max_workers_int>>
        ELSE /\ form_error' = ""
             /\ pipePc' = "stage"
             /\ org_name' = org
             /\ max_workers_int' = Max(1, parsed.value)
  /\ UNCHANGED <<stage_index, stage_status, stage_messages, running_stage,
                 runner_outcome, invoked>>
  /\ UNCHANGED <<queueVars, workerVars, historyVars, sharderVars,
                 consumerVars, reporterVars>>

\* Where the for loop goes after a stage has run.
NextIndexRetry(i, success) == IF success THEN i + 1 ELSE i

NextIndex(i, success) == i + 1

\* Top of the loop body for the next stage: skip it, or show it as running.
StageTop ==
  /\ pipePc = "stage"
  /\ stage_index < Len(stage_order)
  /\ LET stage == stage_order[stage_index + 1]
         dependencies == stage_dependencies[stage]
     IN IF AnyUnmet(stage_status, dependencies)
        THEN /\ stage_status' = [stage_status EXCEPT ![stage] = "skipped"]
             /\ stage_messages' =
                  [stage_messages EXCEPT
                     ![stage] = SkipMessage(NotTrueOf(stage_status,
                                                      dependencies))]
             /\ stage_index' = stage_index + 1
             /\ UNCHANGED <<pipePc, running_stage>>
        ELSE /\ running_stage' = stage
             /\ pipePc' = "run"
             /\ UNCHANGED <<stage_status, stage_messages, stage_index>>
  /\ UNCHANGED <<form_error, org_name, max_workers_int, runner_outcome,
                 invoked>>
  /\ UNCHANGED <<queueVars, workerVars, historyVars, sharderVars,
                 consumerVars, reporterVars>>

\* run_rcc_task is called for the running stage and subprocess.run ends.
StageInvoke(o) ==
  /\ pipePc = "run"
  /\ invoked[running_stage] < MaxInvocations
  /\ invoked' = [invoked EXCEPT ![running_stage] = @ + 1]
  /\ runner_outcome' = o
  /\ pipePc' = "returned"
  /\ UNCHANGED <<form_error, org_name, max_workers_int, stage_index,
                 stage_status, stage_messages, running_stage>>
  /\ UNCHANGED <<queueVars, workerVars, historyVars, sharderVars,
                 consumerVars, reporterVars>>

\* run_rcc_task returns; the status and the message of the stage are set.
StageResult ==
  /\ pipePc = "returned"
  /\ LET r == RunRccTask(runner_outcome)
     IN IF r.raised
        THEN /\ pipePc' = "aborted"
             /\ UNCHANGED <<stage_status, stage_messages, stage_index>>
        ELSE /\ stage_status' =
                  [stage_status EXCEPT ![running_stage] = StatusOf(r.success)]
             /\ stage_messages' =
                  [stage_messages EXCEPT ![running_stage] = r.message]
             /\ stage_index' = NextIndex(stage_index, r.success)
             /\ pipePc' = "stage"
  /\ running_stage' = "None"
  /\ runner_outcome' = NoOutcome
  /\ UNCHANGED <<form_error, org_name, max_workers_int, invoked>>
  /\ UNCHANGED <<queueVars, workerVars, historyVars, sharderVars,
                 consumerVars, reporterVars>>

\* The loop is over: the final rendering, with the Run Again button.
PipelineEnd ==
  /\ pipePc = "stage"
  /\ stage_index = Len(stage_order)
  /\ pipePc' = "final"
  /\ UNCHANGED <<form_error, org_name, max_workers_int, stage_index,
                 stage_status, stage_messages, running_stage, runner_outcome,
                 invoked>>
  /\ UNCHANGED <<queueVars, workerVars, historyVars, sharderVars,
                 consumerVars, reporterVars>>

\* Run Again: reset_form shows the form; the locals of the run are gone.
RunAgain ==
  /\ pipePc = "final"
  /\ pipePc' = "form"
  /\ form_error' = ""
  /\ org_name' = ""
  /\ max_workers_int' = 1
  /\ stage_index' = 0
  /\ stage_status' = [s \in Stages |-> "None"]
  /\ stage_messages' = [s \in Stages |-> NoMessage]
  /\ running_stage' = "None"
  /\ runner_outcome' = NoOutcome
  /\ invoked' = [s \in Stages |-> 0]
  /\ UNCHANGED <<queueVars, workerVars, historyVars, sharderVars,
                 consumerVars, reporterVars>>

\* ------------------------------------------------------- the consumer task
RepoNames == {"alpha", "beta"}

\* The clone URLs that are tried, and url.split('/')[-1].replace('.git', '')
\* of each.
Urls == {"https://github.com/acme/alpha.git", "https://github.com/acme/beta"}

NameFromUrl(url) ==
  CASE url = "https://github.com/acme/alpha.git" -> "alpha"
    [] url = "https://github.com/acme/beta" -> "beta"
    [] OTHER -> ""

\* The payloads that are tried: one that is no dict, and dicts with or
\* without "URL" and "Name" ("" stands for a value that is not truthy).
Payloads ==
  {[dict |-> FALSE, URL |-> "", Name |-> ""]}
    \cup {[dict |-> TRUE, URL |-> u, Name |-> n] :
            u \in {""} \cup Urls, n \in {""} \cup RepoNames}

InputLists == UNION {[1..n -> Payloads] : n \in 0..MaxInputs}

\* The texts of a GitCommandError that are tried, and whether the lowered
\* text contains "could not resolve host" or "network".
GitErrorTexts ==
  {"fatal: Could not resolve host: github.com",
   "fatal: unable to access: Network is unreachable",
   "fatal: repository not found",
   "fatal: Authentication failed"}

IsTransportNever(text) == FALSE

IsTransport(text) ==
  text \in {"fatal: Could not resolve host: github.com",
            "fatal: unable to access: Network is unreachable"}

\* The ways Repo.clone_from and the code up to item.done() can end: the
\* clone is there; a GitCommandError with or without a partial clone left
\* behind, which rmtree removes or not; any other exception.
CloneResults ==
  {[kind |-> "ok", text |-> "", partial |-> TRUE, rmtree_ok |-> TRUE]}
    \cup {[kind |-> "GitCommandError", text |-> t, partial |-> p,
           rmtree_ok |-> r] :
            t \in GitErrorTexts, p \in BOOLEAN, r \in BOOLEAN}
    \cup {[kind |-> "Exception", text |-> "", partial |-> p,
           rmtree_ok |-> TRUE] : p \in BOOLEAN}

\* How an input item was released: not at all, item.done(), or item.fail.
NotReleased == [state |-> "none", type |-> "", code |-> ""]

Done == [state |-> "done", type |-> "", code |-> ""]

Failed(type, code) == [state |-> "failed", type |-> type, code |-> code]

\* An entry of processed_repos, and the payload of an output work item (the
\* commit hash and the organisation are left out).
Record(name, url, status, error) ==
  [name |-> name, url |-> url, status |-> status, error |-> error]

\* len([r for r in processed_repos if r["status"] == status])
CountStatusLeading(repos, status) ==
  Cardinality({k \in 1..Len(repos) :
                 \A j \in 1..k : repos[j].status = status})

CountStatus(repos, status) ==
  Cardinality({k \in 1..Len(repos) : repos[k].status = status})

NoReport ==
  [written |-> FALSE, total_processed |-> 0, successful_clones |-> 0,
   failed_clones |-> 0, released_items |-> 0, already_existing |-> 0,
   repositories |-> <<>>]

ReportOf(repos) ==
  [written |-> TRUE,
   total_processed |-> Len(repos),
   successful_clones |-> CountStatus(repos, "success"),
   failed_clones |-> CountStatus(repos, "failed"),
   released_items |-> CountStatus(repos, "released"),
   already_existing |-> CountStatus(repos, "already_exists"),
   repositories |-> repos]

\* The consumer at rest, for the specifications of the other components.
ConsumerOff ==
  /\ inputs = <<>>
  /\ item_i = 0
  /\ consumerPc = "off"
  /\ repo_exists = {}
  /\ processed_repos = <<>>
  /\ outputs = <<>>
  /\ item_state = <<>>
  /\ clone_calls = <<>>
  /\ clone_result = <<>>
  /\ report = NoReport

\* if not url
MissingUrlNever(url) == FALSE

MissingUrl(url) == url = ""

\* repo_name, with its fallback to the last segment of the URL
RepoNameOfNoFallback(payload) == payload.Name

RepoNameOf(payload) ==
  IF payload.Name = "" THEN NameFromUrl(payload.URL) ELSE payload.Name

\* if repo_path.exists()
PathExistsNever(name, present) == FALSE

PathExists(name, present) == name \in present

\* The loop body for the next input item, up to the call of Repo.clone_from:
\* the payload checks and the check for a clone that is already there.
ConsumerItem ==
  /\ consumerPc = "item"
  /\ item_i < Len(inputs)
  /\ LET i == item_i + 1
         payload == inputs[i]
     IN IF ~payload.dict
        THEN /\ item_state' =
                  [item_state EXCEPT
                     ![i] = Failed("APPLICATION", "INVALID_PAYLOAD")]
             /\ item_i' = i
             /\ UNCHANGED <<consumerPc, processed_repos, outputs>>
        ELSE IF MissingUrl(payload.URL)
        THEN /\ item_state' =
                  [item_state EXCEPT
                     ![i] = Failed("APPLICATION", "MISSING_URL")]
             /\ item_i' = i
             /\ UNCHANGED <<consumerPc, processed_repos, outputs>>
        ELSE IF PathExists(RepoNameOf(payload), repo_exists)
        THEN LET rec == Record(RepoNameOf(payload), payload.URL,
                               "already_exists", "")
             IN /\ processed_repos' = Append(processed_repos, rec)
                /\ outputs' = Append(outputs, rec)
                /\ item_state' = [item_state EXCEPT ![i] = Done]
                /\ item_i' = i
                /\ UNCHANGED consumerPc
        ELSE /\ consumerPc' = "clone"
             /\ UNCHANGED <<item_i, item_state, processed_repos, outputs>>
  /\ UNCHANGED <<inputs, repo_exists, clone_calls, clone_result, report>>
  /\ UNCHANGED <<queueVars, workerVars, historyVars, sharderVars,
                 pipelineVars, reporterVars>>

\* What is under repos_dir after the clone and the clean-up of a failed one.
ExistsAfter(present, name, r) ==
  IF r.kind = "ok" THEN present \cup {name}
  ELSE IF r.kind = "GitCommandError"
  THEN (IF r.partial /\ ~r.rmtree_ok THEN present \cup {name} ELSE present)
  ELSE (IF r.partial THEN present \cup {name} ELSE present)

\* No call of Repo.clone_from for the item so far.
NoClone == [kind |-> "none", text |-> ""]

\* except Exception around the loop body: what it catches of the things the
\* clone and the code after it can raise.
CaughtGitErrorsOnly(kind) == kind = "GitCommandError"

CaughtByLoop(kind) == kind \in {"GitCommandError", "Exception"}

\* Repo.clone_from for the item, and the rest of the loop body.
ConsumerClone(r) ==
  /\ consumerPc = "clone"
  /\ LET i == item_i + 1
         payload == inputs[i]
         name == RepoNameOf(payload)
         status == IF r.kind = "ok" THEN "success"
                   ELSE IF IsTransport(r.text) THEN "released"
                   ELSE "failed"
         rec == Record(name, payload.URL, status, r.text)
     IN /\ clone_calls' = [clone_calls EXCEPT ![i] = @ + 1]
        /\ clone_result' =
             [clone_result EXCEPT ![i] = [kind |-> r.kind, text |-> r.text]]
        /\ repo_exists' = ExistsAfter(repo_exists, name, r)
        /\ IF r.kind = "Exception"
           THEN /\ item_state' =
                     [item_state EXCEPT
                        ![i] = IF CaughtByLoop(r.kind)
                               THEN Failed("APPLICATION", "UNEXPECTED_ERROR")
                               ELSE @]
                /\ consumerPc' =
                     IF CaughtByLoop(r.kind) THEN "item" ELSE "aborted"
                /\ UNCHANGED <<processed_repos, outputs>>
           ELSE /\ processed_repos' = Append(processed_repos, rec)
                /\ outputs' = Append(outputs, rec)
                /\ item_state' =
                     [item_state EXCEPT
                        ![i] = IF status = "success" THEN Done
                               ELSE IF status = "released" THEN NotReleased
                               ELSE Failed("BUSINESS", "GIT_ERROR")]
                /\ consumerPc' = "item"
        /\ item_i' = i
  /\ UNCHANGED <<inputs, report>>
  /\ UNCHANGED <<queueVars, workerVars, historyVars, sharderVars,
                 pipelineVars, reporterVars>>

\* After the loop: the summary report is built and written.
ConsumerReport ==
  /\ consumerPc = "item"
  /\ item_i = Len(inputs)
  /\ report' = ReportOf(processed_repos)
  /\ consumerPc' = "done"
  /\ UNCHANGED <<inputs, item_i, repo_exists, processed_repos, outputs,
                 item_state, clone_calls, clone_result>>
  /\ UNCHANGED <<queueVars, workerVars, historyVars, sharderVars,
                 pipelineVars, reporterVars>>

\* ------------------------------------------------------- the reporter task
\* The entries the consumer can append to processed_repos (the error text
\* is left out).
OutcomeStatuses == {"success", "failed", "released", "already_exists"}

OutcomeRecords ==
  {Record(n, "https://github.com/acme/" \o n, st, "") :
     n \in RepoNames, st \in OutcomeStatuses}

OutcomeLists == UNION {[1..n -> OutcomeRecords] : n \in 0..MaxOutcomes}

\* The lists that hold the entries of list in another order.
Reorderings(list) ==
  {[k \in 1..Len(list) |-> list[p[k]]] :
     p \in {q \in [1..Len(list) -> 1..Len(list)] :
              \A a, b \in 1..Len(list) : a # b => q[a] # q[b]}}

\* The payload of the output work item the consumer creates for an entry.
OutputOf(rec, org) ==
  [name |-> rec.name, url |-> rec.url, org |-> org, status |-> rec.status,
   error |-> rec.error]

OrgValues == {"", "acme"}

\* summary_stats at the start of reporter()
NoSummary ==
  [total_items_processed |-> 0, successful_items |-> 0, failed_items |-> 0,
   released_items |-> 0, organizations |-> {}, repositories |-> <<>>]

\* The statuses the reporter adds to successful_items.
CountedSuccessful == {"success"}

\* summary_stats after one more payload with an organisation.
SummaryAfter(stats, payload, org) ==
  [total_items_processed |-> stats.total_items_processed + 1,
   successful_items |->
     stats.successful_items
       + (IF payload.status \in CountedSuccessful THEN 1 ELSE 0),
   failed_items |->
     stats.failed_items + (IF payload.status = "failed" THEN 1 ELSE 0),
   released_items |->
     stats.released_items + (IF payload.status = "released" THEN 1 ELSE 0),
   organizations |-> stats.organizations \cup {org},
   repositories |->
     Append(stats.repositories,
            [name |-> payload.name, org |-> org, status |-> payload.status,
             url |-> payload.url, error |-> payload.error])]

\* success_rate: successful_items / total_items_processed * 100 as the
\* fraction num / den, and 0 when nothing was processed.
SuccessRate(stats) ==
  IF stats.total_items_processed > 0
  THEN [num |-> stats.successful_items * 100,
        den |-> stats.total_items_processed]
  ELSE [num |-> 0, den |-> 1]

NoFinalReport ==
  [written |-> FALSE, timestamp |-> 0, summary |-> NoSummary,
   success_rate_percent |-> [num |-> 0, den |-> 1]]

\* The reporter at rest, for the specifications of the other components.
ReporterOff ==
  /\ recorded = <<>>
  /\ out_org = ""
  /\ env_org = ""
  /\ rep_run = 0
  /\ reporterPc = "off"
  /\ rep_i = 0
  /\ summary_stats = NoSummary
  /\ rep_item_state = <<>>
  /\ shard_report = <<>>
  /\ final_report = <<>>

\* The consumer has recorded the outcomes of this run in their order: its
\* summary report and its outputs, which are the inputs of the reporter.
ShardReport ==
  /\ reporterPc = "consumer"
  /\ shard_report' =
       [shard_report EXCEPT ![rep_run] = ReportOf(recorded[rep_run])]
  /\ rep_item_state' = [k \in 1..Len(recorded[rep_run]) |-> NotReleased]
  /\ reporterPc' = "item"
  /\ UNCHANGED <<recorded, out_org, env_org, rep_run, rep_i, summary_stats,
                 final_report>>
  /\ UNCHANGED <<queueVars, workerVars, historyVars, sharderVars,
                 pipelineVars, consumerVars>>

\* The loop body of reporter() for the next input item; the inputs are the
\* outputs of the consumer, which are dicts.
ReporterItem ==
  /\ reporterPc = "item"
  /\ rep_i < Len(recorded[rep_run])
  /\ LET i == rep_i + 1
         payload == OutputOf(recorded[rep_run][i], out_org)
         org == IF payload.org # "" THEN payload.org ELSE env_org
     IN IF org = ""
        THEN /\ rep_item_state' =
                  [rep_item_state EXCEPT
                     ![i] = Failed("APPLICATION", "MISSING_ORG_NAME")]
             /\ UNCHANGED summary_stats
        ELSE /\ summary_stats' = SummaryAfter(summary_stats, payload, org)
             /\ rep_item_state' = [rep_item_state EXCEPT ![i] = Done]
  /\ rep_i' = rep_i + 1
  /\ UNCHANGED <<recorded, out_org, env_org, rep_run, reporterPc,
                 shard_report, final_report>>
  /\ UNCHANGED <<queueVars, workerVars, historyVars, sharderVars,
                 pipelineVars, consumerVars>>

\* After the loop: the success rate and the detailed report; then the
\* outcomes are recorded and reported once more, in their other order.
ReporterFinal ==
  /\ reporterPc = "item"
  /\ rep_i = Len(recorded[rep_run])
  /\ final_report' =
       [final_report EXCEPT
          ![rep_run] = [written |-> TRUE,
                        timestamp |-> rep_run,
                        summary |-> summary_stats,
                        success_rate_percent |-> SuccessRate(summary_stats)]]
  /\ IF rep_run < Len(recorded)
     THEN /\ rep_run' = rep_run + 1
          /\ reporterPc' = "consumer"
     ELSE /\ reporterPc' = "done"
          /\ UNCHANGED rep_run
  /\ rep_i' = 0
  /\ summary_stats' = NoSummary
  /\ UNCHANGED <<recorded, out_org, env_org, rep_item_state, shard_report>>
  /\ UNCHANGED <<queueVars, workerVars, historyVars, sharderVars,
                 pipelineVars, consumerVars>>

\* The sharder at rest, for the specifications of the other components.
SharderOff ==
  /\ work_items = <<>>
  /\ max_workers = 1
  /\ sharderPc = "off"
  /\ num_workers = 0
  /\ per_shard = 0
  /\ shard_i = 0
  /\ matrix_include = <<>>
  /\ shards = <<>>
  /\ matrix = [written |-> FALSE, include |-> <<>>]
  /\ empty_payload = {}
  /\ sharder_runs = 0
  /\ analysisPc = "off"
  /\ shard_sizes = <<>>

WorkersIdle ==
  /\ max_items = [w \in Workers |-> 0]
  /\ max_seconds = [w \in Workers |-> 0]
  /\ processed = [w \in Workers |-> 0]
  /\ seq = [w \in Workers |-> 0]
  /\ cands = [w \in Workers |-> <<>>]
  /\ claim = [w \in Workers |-> 0]
  /\ ok = [w \in Workers |-> FALSE]
  /\ run = [w \in Workers |-> NoRun]

HistoryEmpty ==
  /\ claimCount = [n \in Names |-> 0]
  /\ handedCount = [n \in Names |-> 0]
  /\ claimsMade = [w \in Workers |-> 0]
  /\ shard_ids = {}
  /\ move_log = {}

\* The four directories exist and are empty; nothing runs yet.
Init ==
  /\ queue = [d \in Dirs |-> {}]
  /\ created = {}
  /\ enq = [left |-> 0, open |-> 0]
  /\ pc = [w \in Workers |-> "idle"]
  /\ WorkersIdle
  /\ HistoryEmpty
  /\ SharderOff
  /\ PipelineOff
  /\ ConsumerOff
  /\ ReporterOff

Next ==
  \/ \E k \in 1..MaxBatch : EnqueueStart(k)
  \/ \E n \in Names : EnqueueCreate(n)
  \/ EnqueueWrite
  \/ \E w \in Workers, mi \in 0..MaxCap, ms \in 0..1 : StartWorker(w, mi, ms)
  \/ \E w \in Workers : LoopTop(w)
  \/ \E w \in Workers : ClaimStep(w, TRUE)
  \/ \E w \in Workers : Process(w)
  \/ \E w \in Workers : Complete(w, TRUE)

Spec == Init /\ [][Next]_vars

\* ------------------------------------- the queue with stopped workers
\* As Spec, and a worker process can be stopped at any point of its loop
\* and started again later under the same worker id.
NextCrash ==
  \/ Next
  \/ \E w \in Workers : Kill(w)

SpecCrash == Init /\ [][NextCrash]_vars

\* ------------------------------------------ one drain of a filled queue
\* N entries lie complete in todo, a non-empty set of workers runs without
\* item or time budget, nothing is enqueued, and a rename fails only
\* because its source is gone.
InitRun ==
  /\ \E N \in 0..MaxEntries :
       /\ queue = [d \in Dirs |-> IF d = "todo" THEN 1..N ELSE {}]
       /\ created = 1..N
  /\ enq = [left |-> 0, open |-> 0]
  /\ \E R \in SUBSET Workers :
       /\ R # {}
       /\ pc = [w \in Workers |-> IF w \in R THEN "loop" ELSE "idle"]
  /\ WorkersIdle
  /\ HistoryEmpty
  /\ SharderOff
  /\ PipelineOff
  /\ ConsumerOff
  /\ ReporterOff

WorkerRun(w) ==
  \/ LoopTop(w)
  \/ ClaimStep(w, FALSE)
  \/ Process(w)
  \/ Complete(w, FALSE)

NextRun == \E w \in Workers : WorkerRun(w)

\* Every worker process keeps running until it exits, and the processing
\* operation always returns.
SpecRun ==
  InitRun /\ [][NextRun]_vars /\ \A w \in Workers : WF_vars(WorkerRun(w))

\* ------------------------------------------------- one run of the sharder
InitShard ==
  /\ queue = [d \in Dirs |-> {}]
  /\ created = {}
  /\ enq = [left |-> 0, open |-> 0]
  /\ pc = [w \in Workers |-> "idle"]
  /\ WorkersIdle
  /\ HistoryEmpty
  /\ work_items \in ItemLists
  /\ max_workers \in WorkerArgs
  /\ sharderPc = "start"
  /\ num_workers = 0
  /\ per_shard = 0
  /\ shard_i = 0
  /\ matrix_include = <<>>
  /\ shards = <<>>
  /\ matrix = [written |-> FALSE, include |-> <<>>]
  /\ empty_payload \in SUBSET (1..Len(work_items))
  /\ sharder_runs = 1
  /\ analysisPc = "start"
  /\ shard_sizes = <<>>
  /\ PipelineOff
  /\ ConsumerOff
  /\ ReporterOff

NextShard ==
  \/ ShardStart
  \/ ShardLoop
  \/ ShardWriteMatrix
  \/ AnalyzeWorkItems

SpecShard == InitShard /\ [][NextShard]_vars

\* --------------------------------- sharder runs in one output directory
\* The first run starts from a fresh directory; every run gets a list whose
\* items all carry a payload and max_workers >= 1.
InitShardRuns ==
  /\ queue = [d \in Dirs |-> {}]
  /\ created = {}
  /\ enq = [left |-> 0, open |-> 0]
  /\ pc = [w \in Workers |-> "idle"]
  /\ WorkersIdle
  /\ HistoryEmpty
  /\ work_items \in ItemLists
  /\ max_workers \in 1..MaxWorkersArg
  /\ sharderPc = "start"
  /\ num_workers = 0
  /\ per_shard = 0
  /\ shard_i = 0
  /\ matrix_include = <<>>
  /\ shards = <<>>
  /\ matrix = [written |-> FALSE, include |-> <<>>]
  /\ empty_payload = {}
  /\ sharder_runs = 1
  /\ analysisPc = "off"
  /\ shard_sizes = <<>>
  /\ PipelineOff
  /\ ConsumerOff
  /\ ReporterOff

NextShardRuns ==
  \/ ShardStart
  \/ ShardLoop
  \/ ShardWriteMatrix
  \/ \E items \in ItemLists, mw \in 1..MaxWorkersArg : ShardAgain(items, mw)

SpecShardRuns == InitShardRuns /\ [][NextShardRuns]_vars

\* ================================================================ claims

\* ---------------------------------------------- the launcher and its runs
InitPipeline ==
  /\ queue = [d \in Dirs |-> {}]
  /\ created = {}
  /\ enq = [left |-> 0, open |-> 0]
  /\ pc = [w \in Workers |-> "idle"]
  /\ WorkersIdle
  /\ HistoryEmpty
  /\ SharderOff
  /\ ConsumerOff
  /\ ReporterOff
  /\ pipePc = "form"
  /\ form_error = ""
  /\ PipelineIdle

\* The steps of run_pipeline between the submit and the final rendering.
PipelineRun ==
  \/ StageTop
  \/ \E o \in RunnerOutcomes : StageInvoke(o)
  \/ StageResult
  \/ PipelineEnd

NextPipeline ==
  \/ \E org \in OrgTexts, text \in MaxWorkersTexts : RunPipeline(org, text)
  \/ PipelineRun
  \/ RunAgain

\* run_pipeline is sequential code that keeps running, and subprocess.run
\* returns; submitting the form and Run Again are up to the user.
SpecPipeline == InitPipeline /\ [][NextPipeline]_vars /\ WF_vars(PipelineRun)

\* ------------------------------------------------ one run of the consumer
InitConsumer ==
  /\ queue = [d \in Dirs |-> {}]
  /\ created = {}
  /\ enq = [left |-> 0, open |-> 0]
  /\ pc = [w \in Workers |-> "idle"]
  /\ WorkersIdle
  /\ HistoryEmpty
  /\ SharderOff
  /\ PipelineOff
  /\ ReporterOff
  /\ inputs \in InputLists
  /\ item_i = 0
  /\ consumerPc = "item"
  /\ repo_exists \in SUBSET RepoNames
  /\ processed_repos = <<>>
  /\ outputs = <<>>
  /\ item_state = [k \in 1..Len(inputs) |-> NotReleased]
  /\ clone_calls = [k \in 1..Len(inputs) |-> 0]
  /\ clone_result = [k \in 1..Len(inputs) |-> NoClone]
  /\ report = NoReport

NextConsumer ==
  \/ ConsumerItem
  \/ \E r \in CloneResults : ConsumerClone(r)
  \/ ConsumerReport

\* consumer() is sequential code that keeps running, and Repo.clone_from
\* returns or raises.
SpecConsumer ==
  InitConsumer /\ [][NextConsumer]_vars /\ WF_vars(NextConsumer)

\* ------------------------- the reports of one set of outcomes, two orders
InitReport ==
  /\ queue = [d \in Dirs |-> {}]
  /\ created = {}
  /\ enq = [left |-> 0, open |-> 0]
  /\ pc = [w \in Workers |-> "idle"]
  /\ WorkersIdle
  /\ HistoryEmpty
  /\ SharderOff
  /\ PipelineOff
  /\ ConsumerOff
  /\ \E list \in OutcomeLists :
       \E other \in Reorderings(list) : recorded = <<list, other>>
  /\ out_org \in OrgValues
  /\ env_org \in OrgValues
  /\ rep_run = 1
  /\ reporterPc = "consumer"
  /\ rep_i = 0
  /\ summary_stats = NoSummary
  /\ rep_item_state = <<>>
  /\ shard_report = <<NoReport, NoReport>>
  /\ final_report = <<NoFinalReport, NoFinalReport>>

NextReport ==
  \/ ShardReport
  \/ ReporterItem
  \/ ReporterFinal

SpecReport == InitReport /\ [][NextReport]_vars

\* ------------------------------------------------------------ the queue

\* C1: whatever the interleaving of the workers' atomic_claim calls, every
\* queue entry is claimed (renamed from todo into processing) at most once
\* and handed to the processing operation at most once.
C1_ClaimedAtMostOnce ==
  \A n \in Names : claimCount[n] <= 1 /\ handedCount[n] <= 1

\* A worker is about to try a file another worker has claimed and processed.
C1_Witness ==
  \E n \in Names, w \in Workers :
    /\ claimCount[n] = 1
    /\ handedCount[n] = 1
    /\ pc[w] = "claim"
    /\ cands[w] # <<>>
    /\ Head(cands[w]) = n

AllExited == \A w \in Workers : pc[w] \in {"idle", "exited"}

Drained ==
  /\ todo = {}
  /\ processing = {}
  /\ \A n \in created : claimCount[n] = 1 /\ n \in done \cup failed

\* C2: with N entries in todo, M >= 1 workers without budgets, no enqueue, a
\* processing operation that returns and renames that fail only for a source
\* that is gone: every worker eventually exits; a worker whose claim
\* returned none exits without polling again; and once all workers have
\* exited every entry has been claimed exactly once and lies in done or
\* failed, todo and processing being empty.
C2_WorkersDrainQueue ==
  /\ <>[]AllExited
  /\ [](AllExited => Drained)
  /\ [][\A w \in Workers :
          (pc[w] = "claim" /\ cands[w] = <<>>) => pc'[w] \in {"claim", "exited"}]_vars

\* Two workers have drained a queue of at least two entries into both
\* terminal directories.
C2_Witness ==
  /\ \A w \in Workers : pc[w] = "exited"
  /\ done # {}
  /\ failed # {}
  /\ \A n \in created : claimCount[n] = 1

DirsOf(n) == {d \in Dirs : n \in queue[d]}

\* C3: in every reachable state, under any interleaving of enqueue, claim
\* and complete, every queue entry is in exactly one of todo, processing,
\* done, failed (and no other file is in any of them).
C3_ExactlyOneDirectory ==
  \A n \in Names :
    Cardinality(DirsOf(n)) = IF n \in created THEN 1 ELSE 0

\* Enqueue, claim and complete have all acted: an entry is in a terminal
\* directory while another is in processing.
C3_Witness ==
  /\ done \cup failed # {}
  /\ processing # {}
  /\ \E w \in Workers : pc[w] = "claim" /\ cands[w] # <<>>

MovedTo(q, n, d) ==
  [e \in Dirs |-> IF e = "processing" THEN q[e] \ {n}
                  ELSE IF e = d THEN q[e] \cup {n} ELSE q[e]]

\* C9: when a worker completes its claimed entry, the entry goes from
\* processing to done if and only if the stage run reported exit code 0, to
\* failed in every other case (a non-zero exit code, an exception raised by
\* the run), and nowhere else; the only other outcome is that the move
\* itself failed and the queue is as it was.
C9_TerminalDirByExitCode ==
  [][\A w \in Workers :
       (pc[w] = "complete" /\ pc'[w] # "complete") =>
         \/ queue' = queue
         \/ run[w].result = "exit0" /\ queue' = MovedTo(queue, claim[w], "done")
         \/ run[w].result \in {"exitNonzero", "raised"}
              /\ queue' = MovedTo(queue, claim[w], "failed")]_vars

\* Both moves have been made.
C9_Witness == done # {} /\ failed # {}

\* C10: when the consumer classified the item of a claimed entry as released
\* (a transient failure), the worker moves the entry neither to failed nor
\* to done: the entry is left in processing when the worker goes on.
C10_ReleasedLeftInProcessing ==
  [][\A w \in Workers :
       (pc[w] = "complete" /\ run[w].outcome = "released" /\ pc'[w] # "complete")
         => /\ claim[w] \in queue'["processing"]
            /\ claim[w] \notin queue'["done"]
            /\ claim[w] \notin queue'["failed"]]_vars

\* C11: an entry in done or failed stays there: no step of any worker, in
\* the same or a later run, moves it, puts it back into todo or processing,
\* or removes it; and while every entry is in done or failed, a step that is
\* not an enqueue claims nothing and leaves the four directories as they are.
C11_TerminalEntriesStay ==
  [][ /\ \A n \in Names :
           /\ n \in done => DirsOf(n)' = {"done"}
           /\ n \in failed => DirsOf(n)' = {"failed"}
      /\ (created = done \cup failed /\ created' = created) =>
           /\ queue' = queue
           /\ claimCount' = claimCount ]_vars

\* Every entry is in done or failed and a worker of a later run has listed
\* todo and found nothing to claim.
C11_Witness ==
  /\ created # {}
  /\ created = done \cup failed
  /\ done # {}
  /\ failed # {}
  /\ \E w \in Workers : pc[w] = "claim" /\ cands[w] = <<>>

\* C17: a worker started with an item cap k > 0 has claimed at most k
\* entries, whether their processing succeeded or failed.
C17_ItemCapBoundsClaims ==
  \A w \in Workers : max_items[w] > 0 => claimsMade[w] <= max_items[w]

\* A worker with a cap is back at the top of its loop after an item that
\* failed has used the cap up, with an entry still waiting in todo.
C17_Witness ==
  \E w \in Workers :
    /\ pc[w] = "loop"
    /\ max_items[w] > 0
    /\ claimsMade[w] = max_items[w]
    /\ failed # {}
    /\ done = {}
    /\ todo # {}

\* C18: a worker leaves its loop only from the top of the loop or from a
\* claim that found nothing, holding no entry and with every entry it claimed
\* taken through the terminal move; nothing ends the worker between its
\* claim and the end of the terminal move of the claimed entry.
C18_BudgetsOnlyBetweenItems ==
  [][ \A w \in Workers :
        /\ (pc[w] # "exited" /\ pc'[w] = "exited") =>
             /\ pc[w] \in {"loop", "claim"}
             /\ claim[w] = 0
             /\ claimsMade[w] = processed[w]
        /\ pc[w] = "process" => pc'[w] \in {"process", "complete"}
        /\ pc[w] = "complete" => pc'[w] \in {"complete", "loop"} ]_vars

\* A worker is at the top of its loop with its item cap used up: its one
\* claimed entry went to done, another entry waits in todo, and nothing is
\* in processing.
C18_Witness ==
  \E w \in Workers :
    /\ pc[w] = "loop"
    /\ max_items[w] > 0
    /\ processed[w] = max_items[w]
    /\ done # {}
    /\ todo # {}
    /\ processing = {}

\* ---------------------------------------------------------- the sharder

ShardIds == DOMAIN shards

RECURSIVE ConcatShards(_)
ConcatShards(S) ==
  IF S = {} THEN <<>> ELSE shards[SetMin(S)] \o ConcatShards(S \ {SetMin(S)})

\* ceil(n / w) for n >= 0 and w >= 1
CeilOf(n, w) ==
  CHOOSE q \in 0..n : q * w >= n /\ \A r \in 0..n : r * w >= n => q <= r

ShardRunDone == sharderPc = "done" /\ max_workers >= 1

\* C4: for every item list and max_workers >= 1 the shards written
\* partition the input: concatenated in ascending shard index they are the
\* input list in its order.
C4_ShardsPartitionInput ==
  ShardRunDone => ConcatShards(ShardIds) = work_items

\* Five items were split for two workers.
C4_Witness ==
  /\ ShardRunDone
  /\ Len(work_items) = 5
  /\ max_workers = 2
  /\ Cardinality(ShardIds) = 2

\* C5 as stated: for a non-empty list and max_workers >= 1 the number of
\* shards, and of entries of the matrix descriptor, is
\* min(max_workers, len(items)).
C5_ShardCountIsMin ==
  (ShardRunDone /\ Len(work_items) > 0) =>
    /\ Cardinality(ShardIds) = Min(max_workers, Len(work_items))
    /\ Len(matrix.include) = Min(max_workers, Len(work_items))

\* C5 as amended: for a non-empty list of n items and max_workers >= 1, with
\* w = min(max_workers, n) and p = ceil(n / w), the number of shards, and of
\* entries of the matrix descriptor, is ceil(n / p); it is at least 1 and
\* never more than w.
C5_ShardCountIsCeil ==
  (ShardRunDone /\ Len(work_items) > 0) =>
    LET n == Len(work_items)
        w == Min(max_workers, n)
        k == CeilOf(n, CeilOf(n, w))
    IN /\ Cardinality(ShardIds) = k
       /\ Len(matrix.include) = k
       /\ 1 <= k
       /\ k <= w

\* Four items for three workers: two shards, not three.
C5_Witness ==
  /\ ShardRunDone
  /\ Len(work_items) = 4
  /\ max_workers = 3
  /\ Cardinality(ShardIds) = 2

\* C6 as stated: for a non-empty list of n items and max_workers >= 1, with
\* w = min(max_workers, n), every shard has size ceil(n/w) or ceil(n/w) - 1.
C6_ShardSizesWithinOne ==
  (ShardRunDone /\ Len(work_items) > 0) =>
    LET n == Len(work_items)
        p == CeilOf(n, Min(max_workers, n))
    IN \A i \in ShardIds : Len(shards[i]) \in {p, p - 1}

\* C6 as amended: with p = ceil(n/w), every shard but the one of highest
\* index has size p, and that last one has a size from 1 to p (so two
\* shards can differ by more than one element).
C6_ShardSizesCeilButLast ==
  (ShardRunDone /\ Len(work_items) > 0) =>
    LET n == Len(work_items)
        p == CeilOf(n, Min(max_workers, n))
    IN \A i \in ShardIds :
         IF \E j \in ShardIds : j > i
         THEN Len(shards[i]) = p
         ELSE 1 <= Len(shards[i]) /\ Len(shards[i]) <= p

\* Seven items for three workers: shards of 3, 3 and 1 items.
C6_Witness ==
  /\ ShardRunDone
  /\ Len(work_items) = 7
  /\ max_workers = 3
  /\ ShardIds = {0, 1, 2}
  /\ Len(shards[2]) = 1

\* C7: for an empty list and max_workers > 0 the sharder does not fail,
\* writes no shard file, and ends with a matrix descriptor whose include
\* list is empty.
C7_EmptyInputEmptyMatrix ==
  (Len(work_items) = 0 /\ max_workers > 0) =>
    /\ sharderPc \in {"start", "done"}
    /\ ShardIds = {}
    /\ sharderPc = "done" => matrix = [written |-> TRUE, include |-> <<>>]

\* The sharder has run on an empty list.
C7_Witness ==
  /\ Len(work_items) = 0
  /\ max_workers > 0
  /\ sharderPc = "done"
  /\ matrix.written

ExpectedShard(i, p, n) ==
  [k \in 1..(Min((i + 1) * p, n) - i * p) |-> work_items[i * p + k]]

\* C8: for a non-empty list of n items and max_workers >= 1, with
\* p = ceil(n / min(max_workers, n)), shard i holds exactly
\* items[i*p .. min((i+1)*p, n)) for every i with i*p < n; when
\* n <= max_workers there are n shards of one item each; five items for two
\* workers give the first three and the last two items.
C8_ShardContents ==
  (ShardRunDone /\ Len(work_items) > 0) =>
    LET n == Len(work_items)
        p == CeilOf(n, Min(max_workers, n))
    IN /\ \A i \in 0..n :
            i * p < n => i \in ShardIds /\ shards[i] = ExpectedShard(i, p, n)
       /\ n <= max_workers =>
            /\ ShardIds = 0..(n - 1)
            /\ \A i \in ShardIds : shards[i] = <<work_items[i + 1]>>
       /\ (n = 5 /\ max_workers = 2) =>
            /\ ShardIds = {0, 1}
            /\ shards[0] = SubSeq(work_items, 1, 3)
            /\ shards[1] = SubSeq(work_items, 4, 5)

\* Two items were split for five workers.
C8_Witness ==
  /\ ShardRunDone
  /\ Len(work_items) = 2
  /\ max_workers = 5
  /\ ShardIds = {0, 1}

\* --------------------------------------------------- the pipeline launcher
DepsOf(s) == {stage_dependencies[s][k] : k \in 1..Len(stage_dependencies[s])}

Terminal == {"True", "False", "skipped"}

InRun == pipePc \in {"stage", "run", "returned"}

\* The stages a skip message names.
NamedBy(m) == {m.missing[k] : k \in 1..Len(m.missing)}

\* C12: a stage that is shown as running, that was handed to the stage
\* runner, or that has the status the runner gave it, has every prerequisite
\* in status True: a stage with a pending, failed or skipped prerequisite is
\* never run.
C12_RunOnlyAfterPrerequisites ==
  \A s \in Stages :
    (\/ running_stage = s
     \/ invoked[s] > 0
     \/ stage_status[s] \in {"True", "False"})
      => \A d \in DepsOf(s) : stage_status[d] = "True"

\* The last stage of the chain is running after its three predecessors
\* succeeded.
C12_Witness ==
  /\ pipePc = "returned"
  /\ running_stage = "Dashboard"
  /\ invoked["Dashboard"] > 0
  /\ stage_status["Reporter"] = "True"

\* C13: a pending stage with a failed or skipped prerequisite is never shown
\* as running nor handed to the runner; the step that ends its pending
\* status makes it skipped, with a message that names exactly its
\* prerequisites that did not succeed; and during a run that step comes.
C13_SkippedDirectly ==
  /\ [][ \A s \in Stages :
           (/\ stage_status[s] = "None"
            /\ \E d \in DepsOf(s) : stage_status[d] \in {"False", "skipped"})
             => /\ running_stage' # s
                /\ invoked'[s] = 0
                /\ stage_status'[s] \in {"None", "skipped"}
                /\ stage_status'[s] = "skipped" =>
                     NamedBy(stage_messages'[s]) =
                       {d \in DepsOf(s) : stage_status[d] # "True"} ]_vars
  /\ \A s \in Stages :
       (/\ InRun
        /\ stage_status[s] = "None"
        /\ \E d \in DepsOf(s) : stage_status[d] \in {"False", "skipped"})
         ~> (stage_status[s] = "skipped")

\* The Reporter was skipped, without a call of the runner, after the
\* Consumer failed, and its message names the Consumer.
C13_Witness ==
  /\ stage_status["Consumer"] = "False"
  /\ stage_status["Reporter"] = "skipped"
  /\ invoked["Reporter"] = 0
  /\ stage_messages["Reporter"].missing = <<"Consumer">>

\* C14 as stated: when the run has ended with the Producer succeeded and
\* the Consumer failed, the Reporter and the Dashboard are both skipped and
\* the message of each names the Consumer.
C14_BothCiteConsumer ==
  (/\ pipePc = "final"
   /\ stage_status["Producer"] = "True"
   /\ stage_status["Consumer"] = "False")
    => /\ stage_status["Reporter"] = "skipped"
       /\ stage_status["Dashboard"] = "skipped"
       /\ "Consumer" \in NamedBy(stage_messages["Reporter"])
       /\ "Consumer" \in NamedBy(stage_messages["Dashboard"])

\* C14 as amended: when the run has ended with the Producer succeeded and
\* the Consumer failed, the Reporter and the Dashboard are both skipped
\* without a call of the runner; the message of the Reporter names the
\* Consumer and the message of the Dashboard names the Reporter, its one
\* prerequisite, and not the Consumer.
C14_SkipCitesDirectPrerequisite ==
  (/\ pipePc = "final"
   /\ stage_status["Producer"] = "True"
   /\ stage_status["Consumer"] = "False")
    => /\ stage_status["Reporter"] = "skipped"
       /\ stage_status["Dashboard"] = "skipped"
       /\ invoked["Reporter"] = 0
       /\ invoked["Dashboard"] = 0
       /\ NamedBy(stage_messages["Reporter"]) = {"Consumer"}
       /\ NamedBy(stage_messages["Dashboard"]) = {"Reporter"}

\* A run has ended with the Producer succeeded and the Consumer failed on a
\* non-zero exit code.
C14_Witness ==
  /\ pipePc = "final"
  /\ stage_status["Producer"] = "True"
  /\ stage_status["Consumer"] = "False"
  /\ stage_messages["Consumer"].text = "Exit code"

\* C15: a run that has started reaches its final rendering, whatever the
\* runner returns; there every stage is True, False or skipped and none is
\* shown as running; the run is never aborted; and a runner executable that
\* is missing gives the stage the status False and the message that rcc was
\* not found, and the loop goes on.
C15_RunEndsAllTerminal ==
  /\ InRun ~> (pipePc = "final")
  /\ [](pipePc = "final" =>
          /\ running_stage = "None"
          /\ \A s \in Stages : stage_status[s] \in Terminal)
  /\ [](pipePc # "aborted")
  /\ [][ (pipePc = "returned" /\ runner_outcome.kind = "FileNotFoundError")
           => /\ stage_status'[running_stage] = "False"
              /\ stage_messages'[running_stage].text = RccNotFound
              /\ pipePc' = "stage" ]_vars

\* A run has ended in which the Producer ran without the rcc executable and
\* the three other stages were skipped.
C15_Witness ==
  /\ pipePc = "final"
  /\ stage_status["Producer"] = "False"
  /\ stage_messages["Producer"].text = RccNotFound
  /\ \A s \in Stages \ {"Producer"} : stage_status[s] = "skipped"

\* C16: within one run the runner is called at most once for each stage, a
\* status that is True, False or skipped does not change any more, and the
\* runner is not called again for a stage that is False.
C16_NoRetry ==
  /\ [](\A s \in Stages : invoked[s] <= 1)
  /\ [][ \A s \in Stages :
           /\ (stage_status[s] \in Terminal /\ pipePc' # "form")
                => stage_status'[s] = stage_status[s]
           /\ stage_status[s] = "False" => invoked'[s] <= invoked[s] ]_vars

\* A run has ended in which the Consumer failed after its one call of the
\* runner.
C16_Witness ==
  /\ pipePc = "final"
  /\ stage_status["Consumer"] = "False"
  /\ invoked["Consumer"] = 1
  /\ invoked["Producer"] = 1


\* ------------------------------------------------------- the consumer task
\* The input items whose payload is a dict with a URL and whose destination
\* path is there when the loop reaches them.
AtExistingPath ==
  /\ consumerPc = "item"
  /\ item_i < Len(inputs)
  /\ inputs[item_i + 1].dict
  /\ inputs[item_i + 1].URL # ""
  /\ RepoNameOf(inputs[item_i + 1]) \in repo_exists

\* C19: an input item whose payload is a dict without a URL gets no call of
\* the clone operation, and once the loop has passed it, it is failed with
\* the code MISSING_URL.
C19_MissingUrlFailsWithoutClone ==
  \A i \in 1..Len(inputs) :
    (inputs[i].dict /\ inputs[i].URL = "") =>
      /\ clone_calls[i] = 0
      /\ ~(consumerPc = "clone" /\ item_i + 1 = i)
      /\ i <= item_i => item_state[i] = Failed("APPLICATION", "MISSING_URL")

\* The run has ended; its first item had a Name and no URL, its second item
\* was cloned.
C19_Witness ==
  /\ consumerPc = "done"
  /\ Len(inputs) = 2
  /\ inputs[1].dict
  /\ inputs[1].URL = ""
  /\ inputs[1].Name # ""
  /\ item_state[1].code = "MISSING_URL"
  /\ clone_calls[2] = 1

\* C20: the step that handles an item whose destination path is there calls
\* no clone, appends one entry with status already_exists to processed_repos
\* and one output with that status, marks the item done and goes on to the
\* next item; the clone is only ever called for a path that is not there;
\* and the report counts exactly the items done without a clone as
\* already_existing and exactly the items done after a clone as
\* successful_clones.
C20_ExistingPathSkipsClone ==
  /\ [][ AtExistingPath =>
           LET i == item_i + 1
               rec == Record(RepoNameOf(inputs[i]), inputs[i].URL,
                             "already_exists", "")
           IN /\ clone_calls' = clone_calls
              /\ clone_calls[i] = 0
              /\ processed_repos' = Append(processed_repos, rec)
              /\ outputs' = Append(outputs, rec)
              /\ item_state'[i] = Done
              /\ consumerPc' = "item"
              /\ item_i' = i ]_vars
  /\ [](consumerPc = "clone" =>
          RepoNameOf(inputs[item_i + 1]) \notin repo_exists)
  /\ [](consumerPc = "done" =>
          /\ report.already_existing =
               Cardinality({i \in 1..Len(inputs) :
                              item_state[i] = Done /\ clone_calls[i] = 0})
          /\ report.successful_clones =
               Cardinality({i \in 1..Len(inputs) :
                              item_state[i] = Done /\ clone_calls[i] = 1}))

\* The run has ended; the first item was cloned and the second item, for the
\* same repository, found the clone of the first.
C20_Witness ==
  /\ consumerPc = "done"
  /\ Len(inputs) = 2
  /\ clone_calls = <<1, 0>>
  /\ item_state = <<Done, Done>>
  /\ report.successful_clones = 1
  /\ report.already_existing = 1
  /\ Len(outputs) = 2
  /\ outputs[2].status = "already_exists"


\* The error texts whose lowered form contains "could not resolve host" or
\* "network".
TransportErrorTexts ==
  {"fatal: Could not resolve host: github.com",
   "fatal: unable to access: Network is unreachable"}

\* The input items whose clone ended with a GitCommandError of the transport
\* class, and of any other class.
TransportErrorItems ==
  {i \in 1..Len(inputs) :
     /\ clone_result[i].kind = "GitCommandError"
     /\ clone_result[i].text \in TransportErrorTexts}

OtherGitErrorItems ==
  {i \in 1..Len(inputs) :
     /\ clone_result[i].kind = "GitCommandError"
     /\ clone_result[i].text \notin TransportErrorTexts}

\* C21: the step in which the clone of an item raises a GitCommandError
\* appends one entry and one output: with status released and the item
\* neither done nor failed when the error text is of the transport class,
\* with status failed and the item failed with BUSINESS / GIT_ERROR for
\* every other text; and the report counts exactly the items of the first
\* kind as released_items, exactly those of the second kind as failed_clones
\* and exactly the items whose clone succeeded as successful_clones.
C21_CloneErrorClasses ==
  /\ [][ (/\ consumerPc = "clone"
          /\ clone_result'[item_i + 1].kind = "GitCommandError")
           => LET i == item_i + 1
                  text == clone_result'[i].text
                  transport == text \in TransportErrorTexts
                  rec == Record(RepoNameOf(inputs[i]), inputs[i].URL,
                                IF transport THEN "released" ELSE "failed",
                                text)
              IN /\ processed_repos' = Append(processed_repos, rec)
                 /\ outputs' = Append(outputs, rec)
                 /\ item_state'[i] =
                      IF transport THEN NotReleased
                      ELSE Failed("BUSINESS", "GIT_ERROR") ]_vars
  /\ [](consumerPc = "done" =>
          /\ report.released_items = Cardinality(TransportErrorItems)
          /\ report.failed_clones = Cardinality(OtherGitErrorItems)
          /\ report.successful_clones =
               Cardinality({i \in 1..Len(inputs) :
                              clone_result[i].kind = "ok"}))

\* The run has ended; the clone of the first item could not resolve the
\* host, the clone of the second item found no repository.
C21_Witness ==
  /\ consumerPc = "done"
  /\ Len(inputs) = 2
  /\ clone_result[1].text = "fatal: Could not resolve host: github.com"
  /\ clone_result[2].text = "fatal: repository not found"
  /\ item_state[1] = NotReleased
  /\ item_state[2].code = "GIT_ERROR"
  /\ report.released_items = 1
  /\ report.failed_clones = 1
  /\ report.successful_clones = 0


\* The input items whose payload is a dict without a URL.
MissingUrlItems ==
  {i \in 1..Len(inputs) : inputs[i].dict /\ inputs[i].URL = ""}

\* C22: in the report of a run that has ended, the items failed for a
\* missing URL are counted in failed_clones, next to the items whose clone
\* failed for good, and they are counted in total_processed.
C22_MissingUrlCountedFailed ==
  consumerPc = "done" =>
    /\ report.failed_clones =
         Cardinality(OtherGitErrorItems) + Cardinality(MissingUrlItems)
    /\ report.total_processed =
         Len(processed_repos) + Cardinality(MissingUrlItems)


\* The input items whose payload is a dict with a URL and without a Name.
MissingNameItems ==
  {i \in 1..Len(inputs) :
     inputs[i].dict /\ inputs[i].URL # "" /\ inputs[i].Name = ""}

\* The last segment of each URL, without ".git".
LastSegmentOf(url) ==
  IF url = "https://github.com/acme/alpha.git" THEN "alpha" ELSE "beta"

\* C23 as stated: an item with a URL and without a Name gets no call of the
\* clone operation, and once the loop has passed it, it is failed.
C23_MissingNameFails ==
  \A i \in MissingNameItems :
    /\ clone_calls[i] = 0
    /\ i <= item_i => item_state[i].state = "failed"

\* C23 as amended: an item with a URL and without a Name is not failed for
\* that: the last segment of its URL, without ".git", is its repository
\* name; when a path of that name is there the item is recorded as
\* already_exists under that name and marked done, otherwise the clone is
\* called for it, and the entry the clone step records carries that name.
C23_NameFallsBackToUrl ==
  /\ [][ (consumerPc = "item" /\ item_i + 1 \in MissingNameItems)
           => LET i == item_i + 1
                  name == LastSegmentOf(inputs[i].URL)
              IN IF name \in repo_exists
                 THEN /\ processed_repos' =
                           Append(processed_repos,
                                  Record(name, inputs[i].URL,
                                         "already_exists", ""))
                      /\ item_state'[i] = Done
                      /\ clone_calls'[i] = 0
                 ELSE /\ consumerPc' = "clone"
                      /\ item_state'[i] = NotReleased ]_vars
  /\ [][ (/\ consumerPc = "clone"
          /\ item_i + 1 \in MissingNameItems
          /\ clone_result'[item_i + 1].kind # "Exception")
           => /\ Len(processed_repos') = Len(processed_repos) + 1
              /\ processed_repos'[Len(processed_repos')].name =
                   LastSegmentOf(inputs[item_i + 1].URL)
              /\ clone_calls'[item_i + 1] = 1 ]_vars

\* The run has ended; its one item had a URL and no Name and was cloned
\* under the name taken from the URL.
C23_Witness ==
  /\ consumerPc = "done"
  /\ Len(inputs) = 1
  /\ inputs[1].URL = "https://github.com/acme/alpha.git"
  /\ inputs[1].Name = ""
  /\ clone_calls[1] = 1
  /\ item_state[1] = Done
  /\ processed_repos[1].name = "alpha"
  /\ processed_repos[1].status = "success"


\* ------------------------------------------------------------- the reports
\* The counts of a consumer report and of a reporter summary.
ShardCounts(r) ==
  <<r.total_processed, r.successful_clones, r.failed_clones,
    r.released_items, r.already_existing>>

SummaryCounts(f) ==
  <<f.summary.total_items_processed, f.summary.successful_items,
    f.summary.failed_items, f.summary.released_items>>

\* Whether the reporter finds an organisation for its input items.
OrgKnown == out_org # "" \/ env_org # ""

\* C24: when the same outcomes have been recorded and reported in both of
\* their orders, the five counts of the two consumer reports agree and the
\* four counts of the two reporter summaries agree.
C24_CountsOrderIndependent ==
  reporterPc = "done" =>
    /\ ShardCounts(shard_report[1]) = ShardCounts(shard_report[2])
    /\ SummaryCounts(final_report[1]) = SummaryCounts(final_report[2])

\* Two different outcomes were recorded and reported in one order and in
\* the other.
C24_Witness ==
  /\ reporterPc = "done"
  /\ Len(recorded[1]) = 2
  /\ recorded[1][1].status = "success"
  /\ recorded[1][2].status = "failed"
  /\ recorded[2] = <<recorded[1][2], recorded[1][1]>>
  /\ shard_report[2].successful_clones = 1
  /\ final_report[2].summary.total_items_processed = 2
  /\ final_report[2].summary.failed_items = 1

\* C25: when the same outcomes have been recorded and reported in both of
\* their orders, the two consumer reports are equal, their repositories
\* sequences included, and the two reporter reports are equal in every
\* field but the timestamp.
C25_ReportsOrderIndependent ==
  reporterPc = "done" =>
    /\ shard_report[1] = shard_report[2]
    /\ final_report[1].summary = final_report[2].summary
    /\ final_report[1].success_rate_percent =
         final_report[2].success_rate_percent

\* C26: in the report of the reporter, successful_items counts the input
\* records with status success and those with status already_exists alike,
\* and the success rate is that count out of all records counted.
C26_AlreadyExistsCountsAsSuccess ==
  \A r \in 1..Len(final_report) :
    (final_report[r].written /\ OrgKnown) =>
      LET good == Cardinality({k \in 1..Len(recorded[r]) :
                                 recorded[r][k].status
                                   \in {"success", "already_exists"}})
          rate == final_report[r].success_rate_percent
      IN /\ final_report[r].summary.successful_items = good
         /\ rate.num * Len(recorded[r]) = good * 100 * rate.den


\* ------------------------------------------------------- the consumer task
\* The input items the loop has dealt with: released as done or failed, or
\* recorded as released for a retry.
DealtWith ==
  {i \in 1..Len(inputs) :
     item_state[i] # NotReleased \/ i \in TransportErrorItems}

\* C27: whatever the payloads and the clone results, the run of the
\* consumer is never aborted, every step of the loop leads to the next item,
\* to the clone or to the report, and the run ends with every input item
\* dealt with and the report written.
C27_ItemNeverAbortsRun ==
  /\ <>(consumerPc = "done")
  /\ [](consumerPc # "aborted")
  /\ [][ (consumerPc \in {"item", "clone"})
            => (consumerPc' \in {"item", "clone", "done"}) ]_vars
  /\ [](consumerPc = "done" =>
          /\ item_i = Len(inputs)
          /\ DealtWith = 1..Len(inputs)
          /\ report.written)

\* The run has ended; the first item raised an unexpected exception in the
\* clone step and the second item was cloned.
C27_Witness ==
  /\ consumerPc = "done"
  /\ Len(inputs) = 2
  /\ clone_result[1].kind = "Exception"
  /\ item_state[1].code = "UNEXPECTED_ERROR"
  /\ clone_result[2].kind = "ok"
  /\ item_state[2] = Done
  /\ report.written
  /\ report.successful_clones = 1

\* C28: after a clone step that ended in a failure (a GitCommandError of
\* either class, or another exception), the destination path of the item is
\* not there.
C28_FailedCloneLeavesNothing ==
  [][ (/\ consumerPc = "clone"
       /\ clone_result'[item_i + 1].kind \in {"GitCommandError", "Exception"})
        => RepoNameOf(inputs[item_i + 1]) \notin repo_exists' ]_vars


\* -------------------------------------------------- the matrix descriptor

\* The output of a run with max_workers = 1 on the list: one shard, index 0,
\* holding the whole list, and a matrix descriptor naming it.
OutputForOneWorker ==
  /\ shards = (0 :> work_items)
  /\ matrix = [written |-> TRUE, include |-> <<0>>]

NonPositiveRun == max_workers <= 0 /\ Len(work_items) > 0

\* C29: after every sharder run on a non-empty item list with
\* max_workers >= 1 the matrix descriptor lists exactly the indices of the
\* shards written by that run, each once, ascending and contiguous from 0,
\* and every listed shard is non-empty.
C29_MatrixListsShards ==
  (ShardRunDone /\ Len(work_items) > 0) =>
    LET k == Len(matrix.include)
    IN /\ matrix.written
       /\ k >= 1
       /\ matrix.include = [j \in 1..k |-> j - 1]
       /\ ShardIds = 0..(k - 1)
       /\ \A j \in 1..k : shards[matrix.include[j]] # <<>>

\* Five items were split for three workers into shards 0, 1 and 2.
C29_Witness ==
  /\ ShardRunDone
  /\ Len(work_items) = 5
  /\ max_workers = 3
  /\ matrix.written
  /\ matrix.include = <<0, 1, 2>>

\* C30: for every max_workers <= 0 and every non-empty item list the sharder
\* either fails before writing any shard or matrix artifact, or produces
\* the output of max_workers = 1; it never completes normally with a matrix
\* descriptor that leaves input items out of every shard.
C30_NonPositiveRejectedOrOne ==
  NonPositiveRun =>
    /\ sharderPc = "error" => (shards = <<>> /\ ~matrix.written)
    /\ sharderPc = "done" => OutputForOneWorker
    /\ (sharderPc = "done" /\ matrix.written) =>
         ConcatShards(ShardIds) = work_items

\* ------------------------------------------------ payloads and re-runs

\* The items, by place, that some shard file of the output directory holds.
ItemsInShards == UNION {{shards[i][j] : j \in 1..Len(shards[i])} : i \in ShardIds}

\* C31: no item with an empty or missing payload appears in any shard
\* written by the sharder.
C31_NoEmptyPayloadInShards ==
  sharderPc = "done" => ItemsInShards \cap empty_payload = {}

\* The ids the matrix descriptor lists.
MatrixIds == {matrix.include[j] : j \in 1..Len(matrix.include)}

\* C37: after any sequence of sharder runs in the same output directory the
\* set of shard files present equals the set of shard ids listed in the
\* most recently written matrix descriptor.
C37_ShardFilesMatchMatrix ==
  sharderPc = "done" => ShardIds = MatrixIds

RECURSIVE SumSeq(_)
SumSeq(q) == IF q = <<>> THEN 0 ELSE Head(q) + SumSeq(Tail(q))

\* C38: for every item list whose items all carry a payload and every
\* max_workers >= 1 the shard distribution reported by analyze_work_items
\* agrees with the shards the sharder writes for the same input: the same
\* number of shards, the same size for each index, every size positive, and
\* the sizes sum to the number of items.
C38_AnalysisAgreesWithSharder ==
  (/\ ShardRunDone
   /\ empty_payload = {}
   /\ analysisPc \in {"done", "no_items"}) =>
    /\ Len(shard_sizes) = Cardinality(ShardIds)
    /\ ShardIds = {j - 1 : j \in 1..Len(shard_sizes)}
    /\ \A j \in 1..Len(shard_sizes) :
         /\ shard_sizes[j] > 0
         /\ (j - 1) \in ShardIds => shard_sizes[j] = Len(shards[j - 1])
    /\ SumSeq(shard_sizes) = Len(work_items)

\* ------------------------------------------- the queue: files and moves

\* C32: no two processings of a queue entry use the same (worker_id, seq)
\* pair, over all workers with distinct ids and over successive runs of a
\* worker started again with the same id, so no output or report file is
\* written twice.
C32_ShardIdsNeverReused ==
  [][ \A w \in Workers :
        (pc[w] = "process" /\ pc'[w] = "complete")
          => (ShardIdOf(w, seq[w]) \notin shard_ids) ]_vars

AllEntries == UNION {queue[d] : d \in Dirs}

\* The three steps of the enqueuer, as they show in its own state.
EnqueueStarts == enq.left = 0 /\ enq.open = 0 /\ enq'.left > 0
EnqueueCreates == enq.open = 0 /\ enq'.open # 0
EnqueueWrites == enq.open # 0 /\ enq'.open = 0

\* C33: enqueuing a list of k items creates exactly k new single-item
\* files in todo and in no other directory, each under a name no entry of
\* the queue carries, and leaves every entry already present in todo,
\* processing, done and failed where it is: the run starts with k items
\* left and touches no file; each file it creates is one new name in todo
\* and nothing else changes; each file it has written takes one item off
\* the count and touches no entry; it creates only while items are left
\* and it ends when none is left.
C33_EnqueueCreatesKInTodo ==
  [][ (enq' # enq) =>
        /\ EnqueueStarts \/ EnqueueCreates \/ EnqueueWrites
        /\ EnqueueStarts =>
             /\ enq'.open = 0
             /\ enq'.left \in 1..MaxBatch
             /\ queue' = queue
        /\ EnqueueCreates =>
             /\ enq.left > 0
             /\ enq'.left = enq.left
             /\ enq'.open \notin AllEntries
             /\ enq'.open \notin created
             /\ queue' = [queue EXCEPT !["todo"] = @ \cup {enq'.open}]
        /\ EnqueueWrites =>
             /\ enq.left > 0
             /\ enq'.left = enq.left - 1
             /\ queue' = queue
             /\ enq.open \in created'
             /\ enq'.open # enq.open ]_vars

\* A run of two items has ended: both files were created, and one of them
\* was already taken out of todo by a worker while the other was written.
C33_Witness ==
  /\ enq = [left |-> 0, open |-> 0]
  /\ created = {1, 2}
  /\ AllEntries = {1, 2}
  /\ todo # {}
  /\ todo # {1, 2}

\* C34: if the rename of a claimed entry into done or failed fails, the
\* failure is logged, the entry stays in processing (not lost, not back in
\* todo), and the worker goes on to its next claim.
C34_FailedMoveLoggedAndLeft ==
  [][ \A w \in Workers :
        (/\ pc[w] = "complete"
         /\ pc'[w] # "complete"
         /\ claim[w] \in queue'["processing"])
          => /\ claim[w] \in move_log'
             /\ claim[w] \notin queue'["todo"]
             /\ pc'[w] = "loop" ]_vars

\* C35: a worker never claims a todo entry before enqueue has finished
\* writing it; every entry it moves into processing and hands to the
\* processing operation holds the complete single-item list.
C35_ClaimedEntriesComplete ==
  [][ \A w \in Workers :
        /\ (pc[w] = "claim" /\ pc'[w] = "process")
             => Content(claim'[w]) = "item"
        /\ (pc[w] = "process" /\ pc'[w] = "complete")
             => Content(claim[w]) = "item" ]_vars

\* The worker that takes the step.
Actor(w) == pc'[w] # pc[w]

\* An entry in processing that no running worker holds.
Orphan(n) == n \in processing /\ \A w \in Workers : claim[w] # n

\* C36: the only moves of a queue entry are todo -> processing, by a claim,
\* and processing -> done or failed, by the worker that claimed it; nothing
\* moves an entry from processing, done or failed back to todo, and an
\* entry whose worker stopped before the final move stays in processing.
C36_OnlyForwardMoves ==
  [][ \A n \in Names :
        /\ (n \in todo /\ n \notin queue'["todo"]) =>
             /\ n \in queue'["processing"]
             /\ \E w \in Workers :
                  Actor(w) /\ pc[w] = "claim" /\ claim'[w] = n
        /\ (n \notin todo /\ n \in queue'["todo"]) =>
             /\ n \notin AllEntries
             /\ n \notin created
        /\ (n \in processing /\ n \notin queue'["processing"]) =>
             /\ n \in queue'["done"] \cup queue'["failed"]
             /\ \E w \in Workers :
                  Actor(w) /\ pc[w] = "complete" /\ claim[w] = n
        /\ (n \notin processing /\ n \in queue'["processing"]) =>
             n \in todo /\ n \notin queue'["todo"]
        /\ \A d \in {"done", "failed"} :
             /\ n \in queue[d] => n \in queue'[d]
             /\ (n \notin queue[d] /\ n \in queue'[d]) => n \in processing
        /\ Orphan(n) => Orphan(n)' ]_vars

\* An entry was claimed and its worker was stopped before it handed the
\* entry on; the worker runs again under the same id, and the entry lies in
\* processing, held by no one.
C36_Witness ==
  \E n \in Names, w \in Workers :
    /\ Orphan(n)
    /\ claimCount[n] = 1
    /\ handedCount[n] = 0
    /\ pc[w] \in {"loop", "claim"}
    /\ \A v \in Workers \ {w} : pc[v] = "idle"

====
